---- MODULE Spec2Model ----
(***************************************************************************)
(* AgriPrice dashboard (src/AgriPrice/app.py): one script run.  The price  *)
(* files and the typhoon file are read, the price table gets its per       *)
(* commodity statistics and the Price_Spike column, the resilience section *)
(* adds a Lag_Months column, and the lag section derives the lag records   *)
(* and their per commodity summary.                                        *)
(*                                                                         *)
(* Numbers.  Prices are integers.  A mean is the exact fraction <<s, n>>   *)
(* (s / n) and a standard deviation is kept as the exact fraction of its   *)
(* square, <<vn, vd>> (sqrt(vn / vd)); NaN is the fraction <<0, 0>>.       *)
(* Comparisons are between the exact values.                               *)
(***************************************************************************)
EXTENDS Integers, Sequences, FiniteSets, TLC

VARIABLES
    filesFound,    \* whether a price file exists
    rawPrices,     \* rows of the price files, as read by pd.read_csv
    rawTyphoons,   \* rows of the typhoon file, as read by pd.read_csv
    pc,            \* position of the script
    df_typhoons,   \* typhoon table with its Date_Entered_PAR column
    df,            \* price table
    cols,          \* columns of df
    stats,         \* per commodity Mean_Price / Std_Price
    metricSpikes,  \* "Total Price Spikes" metric of the summary section
    lag_df,        \* per commodity Mean_Lag of the resilience section
    df_lag,        \* lag records (concatenation of the list lags)
    lagEv,         \* for each lag record, the typhoon row it was derived from
    lag_summary,   \* per commodity mean / median / count of Lag_Months
    prev           \* what the previous run of the script derived

vars == <<filesFound, rawPrices, rawTyphoons, pc, df_typhoons, df, cols, stats, metricSpikes,
          lag_df, df_lag, lagEv, lag_summary, prev>>

-----------------------------------------------------------------------------
(* Bounds of the model *)

MaxLow == 6

MaxHigh == 2

MaxTyphoons == 2

(* Largest price, and largest numerator of a mean or of a squared standard *)
(* deviation, of the observations the spike test alone is applied to       *)
MaxPrice == 4

MaxStat == 3

(* Program constant: pd.DateOffset(months=2) *)
WindowMonths == 2

-----------------------------------------------------------------------------
(* Values *)

NaT == [y |-> 0, m |-> 0, d |-> 0]

NaN == <<0, 0>>

NoNumber == 0 - 1

NoName == "NaN"

NoData == 0 - 1

IsNaT(t) == t = NaT

IsNaN(q) == q[2] = 0

Min(a, b) == IF a <= b THEN a ELSE b

(* Prices of the price files: a usual one and a high one *)
Prices == << 1, 10 >>

Low == Prices[1]

High == Prices[2]

(* Months the price files cover *)
Months == << [y |-> 2020, m |-> 11], [y |-> 2020, m |-> 12],
             [y |-> 2021, m |-> 1],  [y |-> 2021, m |-> 2] >>

(* Sort order of the commodity names (groupby sorts its keys) *)
CommodityOrder == << "Corn", "Rice" >>

RECURSIVE SumSeq(_)
SumSeq(s) == IF s = <<>> THEN 0 ELSE Head(s) + SumSeq(Tail(s))

RECURSIVE SumSq(_)
SumSq(s) == IF s = <<>> THEN 0 ELSE Head(s) * Head(s) + SumSq(Tail(s))

Range(s) == { s[i] : i \in 1..Len(s) }

-----------------------------------------------------------------------------
(* Calendar *)

IsLeap(y) == (y % 4 = 0 /\ y % 100 # 0) \/ y % 400 = 0

DaysInMonth(y, m) ==
    IF m = 2 THEN (IF IsLeap(y) THEN 29 ELSE 28)
    ELSE IF m \in {4, 6, 9, 11} THEN 30 ELSE 31

ValidDate(y, m, d) == y >= 1 /\ m \in 1..12 /\ d >= 1 /\ d <= DaysInMonth(y, m)

(* pd.to_datetime(..., errors="coerce") of the text y-m-d *)
ToDatetime(y, m, d) == IF ValidDate(y, m, d) THEN [y |-> y, m |-> m, d |-> d] ELSE NaT

(* Timestamp comparisons; a comparison with NaT is False *)
DateLE(a, b) ==
    /\ ~IsNaT(a)
    /\ ~IsNaT(b)
    /\ \/ a.y < b.y
       \/ a.y = b.y /\ a.m < b.m
       \/ a.y = b.y /\ a.m = b.m /\ a.d <= b.d

DateLT(a, b) == DateLE(a, b) /\ a # b

(* Timestamp + pd.DateOffset(months=k): the day is clipped to the month's end *)
AddMonths(t, k) ==
    LET idx == t.y * 12 + (t.m - 1) + k
        yy  == idx \div 12
        mm  == (idx % 12) + 1
    IN  [y |-> yy, m |-> mm, d |-> Min(t.d, DaysInMonth(yy, mm))]

-----------------------------------------------------------------------------
(* Input tables *)

RawRow(mo, c, p) == [Year |-> mo.y, Month |-> mo.m, Commodity_Name |-> c, Retail_Price |-> p]

(* n rows of commodity c at the low price, spread over the months *)
LowRows(c, n) == [ j \in 1..n |-> RawRow(Months[((j - 1) % Len(Months)) + 1], c, Low) ]

RECURSIVE HighRows(_, _, _)
HighRows(c, hs, k) ==
    IF k > Len(Months) THEN <<>>
    ELSE (IF k \in hs THEN << RawRow(Months[k], c, High) >> ELSE <<>>) \o HighRows(c, hs, k + 1)

CommodityRows(c, n, hs) == LowRows(c, n) \o HighRows(c, hs, 1)

HighSets == { hs \in SUBSET (1..Len(Months)) : Cardinality(hs) <= MaxHigh }

(* Further rows of the price files *)
ExtraRows ==
    { <<>>,
      << RawRow(Months[2], "Corn", High) >>,
      CommodityRows("Corn", 4, {3}),
      << RawRow(Months[2], NoName, High) >>,
      << RawRow(Months[1], "Rice", NoNumber),
         [Year |-> 2021, Month |-> 13, Commodity_Name |-> "Rice", Retail_Price |-> High] >> }

(* Rows of the typhoon file; the text of the last one is no date *)
TyphoonRows ==
    { [Name |-> "Ulysses", y |-> 2020, m |-> 11, d |-> 1],
      [Name |-> "Vicky",   y |-> 2020, m |-> 12, d |-> 31],
      [Name |-> "Vicky",   y |-> 2021, m |-> 2,  d |-> 30] }

TyphoonTables == UNION { [1..n -> TyphoonRows] : n \in 0..MaxTyphoons }

-----------------------------------------------------------------------------
(* Loading: lines 32-34 and load_data *)

ParseTyphoon(raw) ==
    [Typhoon_Name |-> raw.Name, Date_Entered_PAR |-> ToDatetime(raw.y, raw.m, raw.d)]

(* pd.to_numeric(..., errors="coerce") *)
ToNumeric(x) == IF x >= 0 THEN x ELSE NoNumber

(* The price files carry Year and Month columns: Date is the month's first day *)
PriceRow(raw) ==
    [Date           |-> ToDatetime(raw.Year, raw.Month, 1),
     Commodity_Name |-> raw.Commodity_Name,
     Retail_Price   |-> ToNumeric(raw.Retail_Price),
     Mean_Price     |-> NaN,
     Std_Price      |-> NaN,
     Price_Spike    |-> FALSE,
     Lag_Months     |-> 0]

(* df.dropna(subset=["Date", "Retail_Price"]) *)
Kept(r) == ~IsNaT(r.Date) /\ r.Retail_Price # NoNumber

LoadedColumns == {"Year", "Month", "Commodity_Name", "Retail_Price", "Source_File", "Date"}

LoadTyphoons ==
    /\ pc = "start"
    /\ df_typhoons' = [i \in 1..Len(rawTyphoons) |-> ParseTyphoon(rawTyphoons[i])]
    /\ pc' = "load"
    /\ UNCHANGED <<filesFound, rawPrices, rawTyphoons, df, cols, stats, metricSpikes, lag_df,
                   df_lag, lagEv, lag_summary, prev>>

(* Lines 309-311: without a price file load_data returns pd.DataFrame() *)
LoadData ==
    /\ pc = "load"
    /\ IF filesFound
       THEN /\ df' = SelectSeq([i \in 1..Len(rawPrices) |-> PriceRow(rawPrices[i])], Kept)
            /\ cols' = LoadedColumns
       ELSE /\ df' = <<>>
            /\ cols' = {}
    /\ pc' = "summary"
    /\ UNCHANGED <<filesFound, rawPrices, rawTyphoons, df_typhoons, stats, metricSpikes, lag_df,
                   df_lag, lagEv, lag_summary, prev>>

-----------------------------------------------------------------------------
(* Summary metrics: lines 359-368 *)

CountSpikes(d) == Len(SelectSeq(d, LAMBDA r : r.Price_Spike))

(* Variant: 0 in place of "No Data" without the column *)
TotalSpikesMetricZero(d, c) == IF "Price_Spike" \in c THEN CountSpikes(d) ELSE 0

(* Lines 361-365 *)
TotalSpikesMetric(d, c) == IF "Price_Spike" \in c THEN CountSpikes(d) ELSE NoData

SummaryMetrics ==
    /\ pc = "summary"
    /\ metricSpikes' = TotalSpikesMetric(df, cols)
    /\ pc' = "spikes"
    /\ UNCHANGED <<filesFound, rawPrices, rawTyphoons, df_typhoons, df, cols, stats, lag_df,
                   df_lag, lagEv, lag_summary, prev>>

-----------------------------------------------------------------------------
(* Price spikes: lines 430-437 *)

(* Keys of df.groupby("Commodity_Name"): sorted, NaN keys dropped *)
Names(d) ==
    SelectSeq(CommodityOrder, LAMBDA c : \E i \in 1..Len(d) : d[i].Commodity_Name = c)

GroupRows(d, c) == SelectSeq(d, LAMBDA r : r.Commodity_Name = c)

GroupPrices(d, c) == [i \in 1..Len(GroupRows(d, c)) |-> GroupRows(d, c)[i].Retail_Price]

(* agg "mean" *)
MeanPrice(ps) == << SumSeq(ps), Len(ps) >>

(* Variant: the population formula's 0 for a single value *)
StdPriceOneValueZero(ps) ==
    IF Len(ps) < 2 THEN << 0, 1 >>
    ELSE << Len(ps) * SumSq(ps) - SumSeq(ps) * SumSeq(ps), Len(ps) * (Len(ps) - 1) >>

(* agg "std": sample standard deviation (ddof = 1), NaN for a single value *)
StdPrice(ps) ==
    IF Len(ps) < 2 THEN NaN
    ELSE << Len(ps) * SumSq(ps) - SumSeq(ps) * SumSeq(ps), Len(ps) * (Len(ps) - 1) >>

ComputeStats(d) ==
    [k \in 1..Len(Names(d)) |->
        [Commodity_Name |-> Names(d)[k],
         Mean_Price     |-> MeanPrice(GroupPrices(d, Names(d)[k])),
         Std_Price      |-> StdPrice(GroupPrices(d, Names(d)[k]))]]

(* df.merge(stats, on="Commodity_Name", how="left") *)
MergeStats(d, st) ==
    [i \in 1..Len(d) |->
        IF \E k \in 1..Len(st) : st[k].Commodity_Name = d[i].Commodity_Name
        THEN LET k == CHOOSE k \in 1..Len(st) : st[k].Commodity_Name = d[i].Commodity_Name
             IN  [d[i] EXCEPT !.Mean_Price = st[k].Mean_Price, !.Std_Price = st[k].Std_Price]
        ELSE [d[i] EXCEPT !.Mean_Price = NaN, !.Std_Price = NaN]]

(* Variant: the distance from the mean, on either side of it *)
SpikeTestTwoSided(p, mean, std) ==
    /\ ~IsNaN(mean)
    /\ ~IsNaN(std)
    /\ 4 * std[2] * (p * mean[2] - mean[1]) * (p * mean[2] - mean[1])
           > 9 * mean[2] * mean[2] * std[1]

(* Variant: >= in place of > *)
SpikeTestNotStrict(p, mean, std) ==
    /\ ~IsNaN(mean)
    /\ ~IsNaN(std)
    /\ p * mean[2] - mean[1] >= 0
    /\ 4 * std[2] * (p * mean[2] - mean[1]) * (p * mean[2] - mean[1])
           >= 9 * mean[2] * mean[2] * std[1]

(* Retail_Price > Mean_Price + 1.5 * Std_Price; False when an operand is NaN. *)
(* With mean = s/n and std = sqrt(vn/vd): p - s/n > (3/2) sqrt(vn/vd).        *)
SpikeTest(p, mean, std) ==
    /\ ~IsNaN(mean)
    /\ ~IsNaN(std)
    /\ p * mean[2] - mean[1] > 0
    /\ 4 * std[2] * (p * mean[2] - mean[1]) * (p * mean[2] - mean[1])
           > 9 * mean[2] * mean[2] * std[1]

FlagSpikes(d) ==
    [i \in 1..Len(d) |->
        [d[i] EXCEPT !.Price_Spike = SpikeTest(d[i].Retail_Price, d[i].Mean_Price, d[i].Std_Price)]]

PriceSpikes ==
    /\ pc = "spikes"
    /\ IF "Retail_Price" \in cols /\ "Commodity_Name" \in cols
       THEN /\ stats' = ComputeStats(df)
            /\ df' = FlagSpikes(MergeStats(df, ComputeStats(df)))
            /\ cols' = cols \cup {"Mean_Price", "Std_Price", "Price_Spike"}
       ELSE UNCHANGED <<stats, df, cols>>
    /\ pc' = "resilience"
    /\ UNCHANGED <<filesFound, rawPrices, rawTyphoons, df_typhoons, metricSpikes, lag_df,
                   df_lag, lagEv, lag_summary, prev>>

-----------------------------------------------------------------------------
(* Resilience analysis: lines 496-548 *)

(* Values np.random.uniform(0.5, 2.5, ...) may draw *)
LagDraws == {1, 2}

(* Draws for the n rows: any draw for the last row, the lowest for the others *)
DrawVectors(n) == { [i \in 1..n |-> IF i = n THEN a ELSE 1] : a \in LagDraws }

GroupLags(d, c) == [i \in 1..Len(GroupRows(d, c)) |-> GroupRows(d, c)[i].Lag_Months]

(* df.groupby("Commodity_Name")["Lag_Months"].mean() *)
MeanLag(d) ==
    [k \in 1..Len(Names(d)) |->
        [Commodity_Name |-> Names(d)[k],
         Mean_Lag       |-> << SumSeq(GroupLags(d, Names(d)[k])), Len(GroupLags(d, Names(d)[k])) >>]]

(* Line 512: Price_Spike from the group's own mean and std *)
FallbackSpikes(d) ==
    [i \in 1..Len(d) |->
        [d[i] EXCEPT !.Price_Spike =
            SpikeTest(d[i].Retail_Price,
                      MeanPrice(GroupPrices(d, d[i].Commodity_Name)),
                      IF d[i].Commodity_Name = NoName THEN NaN
                      ELSE StdPrice(GroupPrices(d, d[i].Commodity_Name)))]]

Resilience ==
    /\ pc = "resilience"
    /\ IF {"Commodity_Name", "Retail_Price", "Date"} \subseteq cols
       THEN \E v \in DrawVectors(Len(df)) :
              LET withLag == IF "Lag_Months" \in cols THEN df
                             ELSE [i \in 1..Len(df) |-> [df[i] EXCEPT !.Lag_Months = v[i]]]
              IN  /\ lag_df' = MeanLag(withLag)
                  /\ df' = IF "Price_Spike" \in cols THEN withLag ELSE FallbackSpikes(withLag)
                  /\ cols' = cols \cup {"Lag_Months", "Price_Spike"}
       ELSE UNCHANGED <<lag_df, df, cols>>
    /\ pc' = "lag"
    /\ UNCHANGED <<filesFound, rawPrices, rawTyphoons, df_typhoons, stats, metricSpikes,
                   df_lag, lagEv, lag_summary, prev>>

-----------------------------------------------------------------------------
(* Lag section: lines 560-621 *)

(* Variant: the conversion coerces every value to NaT *)
ReparseAsNaT(t) == [t EXCEPT !.Date_Entered_PAR = NaT]

(* Line 563: pd.to_datetime of the already parsed column *)
Reparse(t) ==
    [t EXCEPT !.Date_Entered_PAR =
        ToDatetime(t.Date_Entered_PAR.y, t.Date_Entered_PAR.m, t.Date_Entered_PAR.d)]

(* Variant: without df["Date"] >= ty_date *)
InWindowNoLowerBound(r, ty_date) ==
    /\ r.Price_Spike = TRUE
    /\ DateLE(r.Date, AddMonths(ty_date, WindowMonths))

(* Variant: < in place of <= at the window's end *)
InWindowOpenEnd(r, ty_date) ==
    /\ r.Price_Spike = TRUE
    /\ DateLE(ty_date, r.Date)
    /\ DateLT(r.Date, AddMonths(ty_date, WindowMonths))

(* Lines 573-575: the rows of spikes_after *)
InWindow(r, ty_date) ==
    /\ r.Price_Spike = TRUE
    /\ DateLE(ty_date, r.Date)
    /\ DateLE(r.Date, AddMonths(ty_date, WindowMonths))

SpikesAfter(d, ty_date) == SelectSeq(d, LAMBDA r : InWindow(r, ty_date))

(* Variant: max() in place of min() *)
RECURSIVE MaxDate(_)
MaxDate(rows) ==
    IF Len(rows) = 1 THEN rows[1].Date
    ELSE LET rest == MaxDate(Tail(rows))
         IN  IF DateLE(rest, rows[1].Date) THEN rows[1].Date ELSE rest

(* ["Date"].min() of a group *)
RECURSIVE MinDate(_)
MinDate(rows) ==
    IF Len(rows) = 1 THEN rows[1].Date
    ELSE LET rest == MinDate(Tail(rows))
         IN  IF DateLE(rows[1].Date, rest) THEN rows[1].Date ELSE rest

(* Lines 580-583 *)
LagMonths(date, ty_date) == (date.y - ty_date.y) * 12 + (date.m - ty_date.m)

(* Variant: one row per observation of spikes_after, no groupby *)
FirstSpikesPerRow(d, ty, ev) ==
    LET sa == SpikesAfter(d, ty.Date_Entered_PAR)
    IN  [k \in 1..Len(sa) |->
            [Commodity_Name |-> sa[k].Commodity_Name,
             Date           |-> sa[k].Date,
             Lag_Months     |-> LagMonths(sa[k].Date, ty.Date_Entered_PAR),
             Typhoon_Name   |-> ty.Typhoon_Name,
             ev             |-> ev]]

(* Variant: Lag_Months taken from the column the resilience section simulates *)
FirstSpikesSimulated(d, ty, ev) ==
    LET sa == SpikesAfter(d, ty.Date_Entered_PAR)
    IN  [k \in 1..Len(Names(sa)) |->
            [Commodity_Name |-> Names(sa)[k],
             Date           |-> MinDate(GroupRows(sa, Names(sa)[k])),
             Lag_Months     |-> GroupRows(sa, Names(sa)[k])[1].Lag_Months,
             Typhoon_Name   |-> ty.Typhoon_Name,
             ev             |-> ev]]

(* Lines 578-585: the frame first_spikes of one typhoon; ev is the typhoon's row *)
FirstSpikes(d, ty, ev) ==
    LET sa == SpikesAfter(d, ty.Date_Entered_PAR)
    IN  [k \in 1..Len(Names(sa)) |->
            [Commodity_Name |-> Names(sa)[k],
             Date           |-> MinDate(GroupRows(sa, Names(sa)[k])),
             Lag_Months     |-> LagMonths(MinDate(GroupRows(sa, Names(sa)[k])), ty.Date_Entered_PAR),
             Typhoon_Name   |-> ty.Typhoon_Name,
             ev             |-> ev]]

(* Variant: break in place of continue at a null date *)
RECURSIVE LagLoopBreak(_, _, _)
LagLoopBreak(typh, d, i) ==
    IF i > Len(typh) THEN <<>>
    ELSE IF IsNaT(typh[i].Date_Entered_PAR) THEN <<>>
    ELSE FirstSpikes(d, typh[i], i) \o LagLoopBreak(typh, d, i + 1)

(* Lines 565-585 and 588: the loop over the typhoons, and pd.concat(lags) *)
RECURSIVE LagLoop(_, _, _)
LagLoop(typh, d, i) ==
    IF i > Len(typh) THEN <<>>
    ELSE IF IsNaT(typh[i].Date_Entered_PAR) THEN LagLoop(typh, d, i + 1)
    ELSE FirstSpikes(d, typh[i], i) \o LagLoop(typh, d, i + 1)

LagRecord(r) ==
    [Commodity_Name |-> r.Commodity_Name, Date |-> r.Date,
     Lag_Months |-> r.Lag_Months, Typhoon_Name |-> r.Typhoon_Name]

ComputeLag(typh, d) ==
    [i \in 1..Len(LagLoop(typh, d, 1)) |-> LagRecord(LagLoop(typh, d, 1)[i])]

LagEvents(typh, d) == [i \in 1..Len(LagLoop(typh, d, 1)) |-> LagLoop(typh, d, 1)[i].ev]

(* a sorts before b: plain numbers, and the summary rows by their mean *)
LessInt(a, b) == a < b

LessMean(a, b) == a.mean[1] * b.mean[2] < b.mean[1] * a.mean[2]

(* Ascending insertion of x into the sorted sequence s, behind its equals *)
RECURSIVE InsertInt(_, _)
InsertInt(s, x) ==
    IF s = <<>> THEN << x >>
    ELSE IF LessInt(x, Head(s)) THEN << x >> \o s
    ELSE << Head(s) >> \o InsertInt(Tail(s), x)

RECURSIVE SortInts(_)
SortInts(s) ==
    IF s = <<>> THEN <<>>
    ELSE InsertInt(SortInts(SubSeq(s, 1, Len(s) - 1)), s[Len(s)])

RECURSIVE InsertRow(_, _)
InsertRow(s, x) ==
    IF s = <<>> THEN << x >>
    ELSE IF LessMean(x, Head(s)) THEN << x >> \o s
    ELSE << Head(s) >> \o InsertRow(Tail(s), x)

RECURSIVE SortByMean(_)
SortByMean(s) ==
    IF s = <<>> THEN <<>>
    ELSE InsertRow(SortByMean(SubSeq(s, 1, Len(s) - 1)), s[Len(s)])

GroupLagMonths(l, c) == [i \in 1..Len(GroupRows(l, c)) |-> GroupRows(l, c)[i].Lag_Months]

(* Variant: the lower middle value *)
MedianLowerMiddle(xs) == << SortInts(xs)[(Len(xs) + 1) \div 2], 1 >>

(* agg "median": the middle value, or the mean of the two middle values *)
Median(xs) ==
    LET srt == SortInts(xs)
        n   == Len(xs)
    IN  << srt[(n + 1) \div 2] + srt[(n \div 2) + 1], 2 >>

(* Line 592 *)
Aggregate(l) ==
    [k \in 1..Len(Names(l)) |->
        [Commodity_Name |-> Names(l)[k],
         mean   |-> << SumSeq(GroupLagMonths(l, Names(l)[k])), Len(GroupLagMonths(l, Names(l)[k])) >>,
         median |-> Median(GroupLagMonths(l, Names(l)[k])),
         count  |-> Len(GroupLagMonths(l, Names(l)[k]))]]

(* Line 593: sort_values("mean") *)
SummarizeLag(l) == SortByMean(Aggregate(l))

(* Variant: without the test for the Price_Spike column *)
LagGuardTyphoonsOnly == df_typhoons # <<>>

(* Line 560 *)
LagGuard == df_typhoons # <<>> /\ "Price_Spike" \in cols

(* Columns of df the loop reads (lines 573-579); a missing one is a KeyError *)
LagColumns == {"Price_Spike", "Date", "Commodity_Name"}

LagSection ==
    /\ pc = "lag"
    /\ IF LagGuard /\ LagColumns \subseteq cols
       THEN LET typh == [i \in 1..Len(df_typhoons) |-> Reparse(df_typhoons[i])]
            IN  /\ df_typhoons' = typh
                /\ df_lag' = ComputeLag(typh, df)
                /\ lagEv' = LagEvents(typh, df)
                /\ lag_summary' = IF ComputeLag(typh, df) # <<>>
                                  THEN SummarizeLag(ComputeLag(typh, df))
                                  ELSE lag_summary
       ELSE /\ df_typhoons' = IF LagGuard
                              THEN [i \in 1..Len(df_typhoons) |-> Reparse(df_typhoons[i])]
                              ELSE df_typhoons
            /\ UNCHANGED <<df_lag, lagEv, lag_summary>>
    /\ pc' = IF LagGuard /\ ~(LagColumns \subseteq cols) THEN "error" ELSE "done"
    /\ UNCHANGED <<filesFound, rawPrices, rawTyphoons, df, cols, stats, metricSpikes, lag_df, prev>>

-----------------------------------------------------------------------------
(* The script, and its next run on the same files *)

NoRun == [ran |-> FALSE, stats |-> <<>>, flags |-> <<>>, df_lag |-> <<>>,
          lag_summary |-> <<>>, lag_df |-> <<>>]

Outputs ==
    [ran         |-> TRUE,
     stats       |-> stats,
     flags       |-> [i \in 1..Len(df) |-> df[i].Price_Spike],
     df_lag      |-> df_lag,
     lag_summary |-> lag_summary,
     lag_df      |-> lag_df]

Init ==
    /\ \/ /\ filesFound = TRUE
          /\ \E n \in 0..MaxLow, hs \in HighSets, ex \in ExtraRows :
                rawPrices = CommodityRows("Rice", n, hs) \o ex
       \/ /\ filesFound = FALSE
          /\ rawPrices = <<>>
    /\ rawTyphoons \in TyphoonTables
    /\ pc = "start"
    /\ df_typhoons = <<>>
    /\ df = <<>>
    /\ cols = {}
    /\ stats = <<>>
    /\ metricSpikes = NoData
    /\ lag_df = <<>>
    /\ df_lag = <<>>
    /\ lagEv = <<>>
    /\ lag_summary = <<>>
    /\ prev = NoRun

Rerun ==
    /\ pc = "done"
    /\ ~prev.ran
    /\ prev' = Outputs
    /\ pc' = "start"
    /\ df_typhoons' = <<>>
    /\ df' = <<>>
    /\ cols' = {}
    /\ stats' = <<>>
    /\ metricSpikes' = NoData
    /\ lag_df' = <<>>
    /\ df_lag' = <<>>
    /\ lagEv' = <<>>
    /\ lag_summary' = <<>>
    /\ UNCHANGED <<filesFound, rawPrices, rawTyphoons>>

Next ==
    \/ LoadTyphoons
    \/ LoadData
    \/ SummaryMetrics
    \/ PriceSpikes
    \/ Resilience
    \/ LagSection

Spec == Init /\ [][Next]_vars

(* Line 437 alone: two observations of one commodity whose Mean_Price and *)
(* Std_Price columns hold given values                                    *)
Fractions == { << a, b >> : a \in 0..MaxStat, b \in 1..2 }

MergedRow(p, mean, std) ==
    [Date           |-> ToDatetime(Months[1].y, Months[1].m, 1),
     Commodity_Name |-> "Rice",
     Retail_Price   |-> p,
     Mean_Price     |-> mean,
     Std_Price      |-> std,
     Price_Spike    |-> FALSE,
     Lag_Months     |-> 0]

InitFlag ==
    /\ filesFound = TRUE
    /\ rawPrices = <<>>
    /\ rawTyphoons = <<>>
    /\ pc = "flag"
    /\ df_typhoons = <<>>
    /\ \E p \in 0..MaxPrice, q \in 0..MaxPrice, mean \in Fractions \cup {NaN},
          std \in Fractions \cup {NaN} :
          /\ IsNaN(mean) => IsNaN(std)
          /\ df = << MergedRow(p, mean, std), MergedRow(q, mean, std) >>
          /\ stats = IF IsNaN(mean) THEN <<>>
                     ELSE << [Commodity_Name |-> "Rice", Mean_Price |-> mean, Std_Price |-> std] >>
    /\ cols = LoadedColumns \cup {"Mean_Price", "Std_Price"}
    /\ metricSpikes = NoData
    /\ lag_df = <<>>
    /\ df_lag = <<>>
    /\ lagEv = <<>>
    /\ lag_summary = <<>>
    /\ prev = NoRun

ApplyFlagSpikes ==
    /\ pc = "flag"
    /\ df' = FlagSpikes(df)
    /\ cols' = cols \cup {"Price_Spike"}
    /\ pc' = "flagged"
    /\ UNCHANGED <<filesFound, rawPrices, rawTyphoons, df_typhoons, stats, metricSpikes,
                   lag_df, df_lag, lagEv, lag_summary, prev>>

NextFlag == ApplyFlagSpikes

SpecFlag == InitFlag /\ [][NextFlag]_vars

NextRerun == Next \/ Rerun

SpecRerun == Init /\ [][NextRerun]_vars

-----------------------------------------------------------------------------
(* Properties *)

(* p > mean + 1.5 * std, for the exact values mean = s/n and std = sqrt(vn/vd) *)
Above(p, mean, std) ==
    /\ p * mean[2] > mean[1]
    /\ 4 * std[2] * (p * mean[2] - mean[1]) * (p * mean[2] - mean[1])
           > 9 * mean[2] * mean[2] * std[1]

StatsRows(c) == { k \in 1..Len(stats) : stats[k].Commodity_Name = c }

(* C1: an observation's Price_Spike flag is true exactly when its commodity *)
(* has a stats row whose Std_Price is not null and Retail_Price is strictly *)
(* above Mean_Price + 1.5 * Std_Price; without a stats row it is false.     *)
C1_FlagIffAboveThreshold ==
    "Price_Spike" \in cols =>
        \A i \in 1..Len(df) :
            df[i].Price_Spike =
                (\E k \in StatsRows(df[i].Commodity_Name) :
                    /\ stats[k].Std_Price[2] # 0
                    /\ Above(df[i].Retail_Price, stats[k].Mean_Price, stats[k].Std_Price))

(* A flagged observation next to one whose commodity has no stats row *)
C1_Witness ==
    /\ "Price_Spike" \in cols
    /\ \E i \in 1..Len(df) : df[i].Price_Spike
    /\ \E i \in 1..Len(df) : StatsRows(df[i].Commodity_Name) = {} /\ df[i].Retail_Price = High

(* Whole months from t to d, and "d lies in [t, t + 2 calendar months]" *)
MonthsApart(d, t) == (d.y * 12 + d.m) - (t.y * 12 + t.m)

WithinWindow(d, t) ==
    \/ MonthsApart(d, t) = 0 /\ d.d >= t.d
    \/ MonthsApart(d, t) > 0 /\ MonthsApart(d, t) < WindowMonths
    \/ MonthsApart(d, t) = WindowMonths /\ d.d <= t.d

TyDate(e) == df_typhoons[e].Date_Entered_PAR

Dated(e) == ~IsNaT(TyDate(e))

(* Flagged observations of commodity c in the window of typhoon row e *)
Qualifying(e, c) ==
    { j \in 1..Len(df) : /\ df[j].Price_Spike
                         /\ df[j].Commodity_Name = c
                         /\ Dated(e)
                         /\ WithinWindow(df[j].Date, TyDate(e)) }

(* Lag records of typhoon row e and commodity c *)
Records(e, c) == { i \in 1..Len(df_lag) : lagEv[i] = e /\ df_lag[i].Commodity_Name = c }

AllNames == Range(CommodityOrder) \cup {NoName}

(* C2: no lag record has Lag_Months < 0, whatever the typhoon's day of month *)
C2_LagNeverNegative == \A i \in 1..Len(df_lag) : df_lag[i].Lag_Months >= 0

(* A record of a typhoon dated late in a month, with a flagged observation *)
(* of an earlier month in the table                                        *)
C2_Witness ==
    \E i \in 1..Len(df_lag) :
        /\ TyDate(lagEv[i]).d > 1
        /\ \E j \in 1..Len(df) : /\ df[j].Price_Spike
                                 /\ df[j].Commodity_Name = df_lag[i].Commodity_Name
                                 /\ MonthsApart(df[j].Date, TyDate(lagEv[i])) < 0

(* C3: a record's first spike date lies in [typhoon date, typhoon date + 2  *)
(* calendar months] and its lag is 0, 1 or 2; a flagged observation on      *)
(* either end point of the window does yield a record.                      *)
C3_WindowClosed ==
    /\ \A i \in 1..Len(df_lag) :
          /\ Dated(lagEv[i])
          /\ WithinWindow(df_lag[i].Date, TyDate(lagEv[i]))
          /\ df_lag[i].Lag_Months \in 0..WindowMonths
    /\ pc = "done" =>
          \A e \in 1..Len(df_typhoons), j \in 1..Len(df) :
              ( /\ Dated(e)
                /\ df[j].Price_Spike
                /\ \/ df[j].Date = TyDate(e)
                   \/ df[j].Date = AddMonths(TyDate(e), WindowMonths) )
              => Records(e, df[j].Commodity_Name) # {}

(* Records on both end points, and a flagged observation before a typhoon *)
C3_Witness ==
    /\ \E i \in 1..Len(df_lag) : df_lag[i].Date = TyDate(lagEv[i])
    /\ \E i \in 1..Len(df_lag) :
          df_lag[i].Date = AddMonths(TyDate(lagEv[i]), WindowMonths)
    /\ \E e \in 1..Len(df_typhoons), j \in 1..Len(df) :
          Dated(e) /\ df[j].Price_Spike /\ DateLT(df[j].Date, TyDate(e))

(* C4: once the lag section has run, a typhoon row and a commodity have one *)
(* lag record if the row's date is not null and a flagged observation of    *)
(* the commodity lies in its window, and no record otherwise.               *)
C4_OneRecordPerPair ==
    pc = "done" =>
        /\ Len(lagEv) = Len(df_lag)
        /\ \A i \in 1..Len(df_lag) : lagEv[i] \in 1..Len(df_typhoons)
        /\ \A e \in 1..Len(df_typhoons), c \in AllNames :
              Cardinality(Records(e, c)) = IF Dated(e) /\ Qualifying(e, c) # {} THEN 1 ELSE 0

(* Two flagged observations of one commodity in a window, and a dated *)
(* typhoon without any record                                         *)
C4_Witness ==
    /\ pc = "done"
    /\ \E e \in 1..Len(df_typhoons), c \in AllNames : Cardinality(Qualifying(e, c)) >= 2
    /\ \E e \in 1..Len(df_typhoons) : Dated(e) /\ \A c \in AllNames : Records(e, c) = {}
    /\ df_lag # <<>>

(* C5: a record's first spike date is the earliest date among the flagged    *)
(* observations of its commodity in the typhoon's window, and its lag is the *)
(* year difference times 12 plus the month difference.                       *)
C5_FirstSpikeAndLag ==
    \A i \in 1..Len(df_lag) :
        LET q == Qualifying(lagEv[i], df_lag[i].Commodity_Name)
        IN  /\ \E j \in q : df[j].Date = df_lag[i].Date
            /\ \A j \in q : DateLE(df_lag[i].Date, df[j].Date)
            /\ df_lag[i].Lag_Months = MonthsApart(df_lag[i].Date, TyDate(lagEv[i]))
            /\ \A j \in q : MonthsApart(df[j].Date, TyDate(lagEv[i])) >= df_lag[i].Lag_Months

(* A record with lag 1 whose commodity has a later flagged observation in *)
(* the same window                                                        *)
C5_Witness ==
    \E i \in 1..Len(df_lag) :
        /\ df_lag[i].Lag_Months = 1
        /\ \E j \in Qualifying(lagEv[i], df_lag[i].Commodity_Name) :
              DateLT(df_lag[i].Date, df[j].Date)

(* C6: a typhoon row whose date is null yields no lag record, and the lag *)
(* records are those the lag computation yields for the typhoon table    *)
(* without its null-dated rows.                                          *)
C6_NullDateSkipped ==
    pc = "done" =>
        /\ \A i \in 1..Len(df_lag) : Dated(lagEv[i])
        /\ df_lag = ComputeLag(SelectSeq(df_typhoons, LAMBDA t : ~IsNaT(t.Date_Entered_PAR)), df)

(* A null-dated typhoon row ahead of a row that has a lag record *)
C6_Witness ==
    /\ pc = "done"
    /\ \E e1 \in 1..Len(df_typhoons), i \in 1..Len(df_lag) : ~Dated(e1) /\ e1 < lagEv[i]

RowsOf(c) == { j \in 1..Len(df) : df[j].Commodity_Name = c }

(* C7: the stats table has one entry per commodity name of the price table; *)
(* a commodity with one observation has a null Std_Price, has no flagged    *)
(* observation and is in no lag record.                                     *)
C7_SingleObservation ==
    "Price_Spike" \in cols =>
        \A c \in AllNames :
            /\ Cardinality(StatsRows(c)) = IF c # NoName /\ RowsOf(c) # {} THEN 1 ELSE 0
            /\ (c # NoName /\ Cardinality(RowsOf(c)) = 1) =>
                  /\ \A k \in StatsRows(c) : IsNaN(stats[k].Std_Price) /\ ~IsNaN(stats[k].Mean_Price)
                  /\ \A j \in RowsOf(c) : ~df[j].Price_Spike
                  /\ \A i \in 1..Len(df_lag) : df_lag[i].Commodity_Name # c

(* The only observation of a commodity, at the high price, in the window of *)
(* a typhoon that has a record for another commodity                        *)
C7_Witness ==
    /\ pc = "done"
    /\ df_lag # <<>>
    /\ \E c \in AllNames, e \in 1..Len(df_typhoons) :
          /\ c # NoName
          /\ Cardinality(RowsOf(c)) = 1
          /\ Dated(e)
          /\ \A j \in RowsOf(c) : df[j].Retail_Price = High /\ WithinWindow(df[j].Date, TyDate(e))
          /\ \E i \in 1..Len(df_lag) : lagEv[i] = e

RecordsOf(c) == { i \in 1..Len(df_lag) : df_lag[i].Commodity_Name = c }

SummaryRows(c) == { k \in 1..Len(lag_summary) : lag_summary[k].Commodity_Name = c }

RECURSIVE SumLags(_)
SumLags(S) ==
    IF S = {} THEN 0
    ELSE LET i == CHOOSE i \in S : TRUE IN df_lag[i].Lag_Months + SumLags(S \ {i})

(* The k-th smallest Lag_Months among the records S *)
KthLag(S, k) ==
    CHOOSE v \in { df_lag[i].Lag_Months : i \in S } :
        /\ Cardinality({ i \in S : df_lag[i].Lag_Months < v }) < k
        /\ Cardinality({ i \in S : df_lag[i].Lag_Months <= v }) >= k

RECURSIVE SumCounts(_)
SumCounts(rows) == IF rows = <<>> THEN 0 ELSE Head(rows).count + SumCounts(Tail(rows))

(* C8: the lag summary has an entry for exactly the commodities named by a *)
(* lag record; an entry's count is the number of the commodity's records,  *)
(* mean * count is the sum of their lags, median is their median, and the  *)
(* counts add up to the number of lag records.                             *)
C8_SummaryOfRecords ==
    pc = "done" =>
        /\ \A c \in AllNames :
              /\ Cardinality(SummaryRows(c)) = IF RecordsOf(c) # {} THEN 1 ELSE 0
              /\ \A k \in SummaryRows(c) :
                    LET n == Cardinality(RecordsOf(c))
                        r == lag_summary[k]
                    IN  /\ r.count = n
                        /\ r.mean[2] # 0
                        /\ r.mean[1] * n = SumLags(RecordsOf(c)) * r.mean[2]
                        /\ r.median[2] # 0
                        /\ 2 * r.median[1] =
                              (KthLag(RecordsOf(c), (n + 1) \div 2) + KthLag(RecordsOf(c), (n \div 2) + 1))
                                  * r.median[2]
        /\ SumCounts(lag_summary) = Len(df_lag)

(* Two entries, one of them over two records of different lags *)
C8_Witness ==
    /\ pc = "done"
    /\ Len(lag_summary) = 2
    /\ \E c \in AllNames :
          \E i \in RecordsOf(c), j \in RecordsOf(c) :
              df_lag[i].Lag_Months = 1 /\ df_lag[j].Lag_Months = 2

(* C9 as stated: a second run of the script on the same files derives the *)
(* same stats, spike flags, lag records, lag summary and Mean_Lag.         *)
C9_AllOutputsRepeat == (pc = "done" /\ prev.ran) => Outputs = prev

(* C9 amended: a second run of the script on the same files derives the same *)
(* stats, spike flags, lag records and lag summary (the Mean_Lag of the      *)
(* resilience section comes from random draws and may differ).               *)
C9_DerivedTablesRepeat ==
    (pc = "done" /\ prev.ran) =>
        /\ stats = prev.stats
        /\ [i \in 1..Len(df) |-> df[i].Price_Spike] = prev.flags
        /\ df_lag = prev.df_lag
        /\ lag_summary = prev.lag_summary

(* A second run with lag records whose Mean_Lag differs from the first run's *)
C9_Witness ==
    /\ pc = "done"
    /\ prev.ran
    /\ df_lag # <<>>
    /\ lag_df # prev.lag_df

TyphoonDates(typh) == [i \in 1..Len(typh) |-> typh[i].Date_Entered_PAR]

(* C10: the lag section leaves the price table and the typhoon dates as they *)
(* were, and the lag computation invoked again on the tables it leaves       *)
(* yields the same set of lag records.                                       *)
C10_LagIdempotent ==
    [][LagSection =>
          /\ df' = df
          /\ TyphoonDates(df_typhoons') = TyphoonDates(df_typhoons)
          /\ Range(ComputeLag([i \in 1..Len(df_typhoons') |-> Reparse(df_typhoons'[i])], df'))
                = Range(df_lag')]_vars

(* The lag section has run on a table with a null-dated typhoon and left *)
(* lag records                                                           *)
C10_Witness ==
    /\ pc = "done"
    /\ df_lag # <<>>
    /\ \E e \in 1..Len(df_typhoons) : ~Dated(e)

(* C11: with the same Mean_Price and Std_Price, if an observation is flagged *)
(* then every observation at the same or a higher price is flagged.         *)
C11_MonotonicInPrice ==
    "Price_Spike" \in cols =>
        \A i \in 1..Len(df), j \in 1..Len(df) :
            ( /\ df[i].Mean_Price = df[j].Mean_Price
              /\ df[i].Std_Price = df[j].Std_Price
              /\ df[i].Retail_Price <= df[j].Retail_Price
              /\ df[i].Price_Spike )
            => df[j].Price_Spike

(* A flagged observation and one at a higher price, under the same stats *)
C11_Witness ==
    /\ pc = "flagged"
    /\ df[1].Retail_Price < df[2].Retail_Price
    /\ df[1].Price_Spike
    /\ df[2].Price_Spike

(* No price file, or price files none of whose rows is kept *)
NoPriceRows ==
    \/ ~filesFound
    \/ \A i \in 1..Len(rawPrices) : ~Kept(PriceRow(rawPrices[i]))

(* C12: with an empty price table or an empty typhoon table the script never *)
(* stops on an exception (without a price file: it is at its end or has a    *)
(* section to run) and leaves no lag record and no lag summary; with an      *)
(* empty price table it leaves no stats row and no flagged observation       *)
(* either.                                                                   *)
C12_EmptyInputRuns ==
    (NoPriceRows \/ rawTyphoons = <<>>) =>
        /\ pc # "error"
        /\ ~filesFound => (pc = "done" \/ ENABLED Next)
        /\ df_lag = <<>>
        /\ lag_summary = <<>>
        /\ NoPriceRows => (df = <<>> /\ stats = <<>> /\ CountSpikes(df) = 0)

(* The end of a run without a price file and with typhoons *)
C12_Witness ==
    /\ pc = "done"
    /\ ~filesFound
    /\ \E e \in 1..Len(df_typhoons) : Dated(e)

(* C13: the loaded price table has no Price_Spike column, so from the summary *)
(* section on the Total Price Spikes metric is "No Data", whatever is flagged *)
(* afterwards; when the lag section is reached with the Retail_Price and      *)
(* Commodity_Name columns, the Price_Spike column is there and holds the      *)
(* flags derived from the stats.                                              *)
C13_MetricBeforeFlags ==
    /\ ("Price_Spike" \notin LoadedColumns /\ pc \notin {"start", "load", "summary"})
          => metricSpikes = NoData
    /\ (pc \in {"lag", "done"} /\ {"Retail_Price", "Commodity_Name"} \subseteq cols) =>
          /\ "Price_Spike" \in cols
          /\ \A i \in 1..Len(df) :
                df[i].Price_Spike =
                    (\E k \in StatsRows(df[i].Commodity_Name) :
                        /\ stats[k].Std_Price[2] # 0
                        /\ Above(df[i].Retail_Price, stats[k].Mean_Price, stats[k].Std_Price))

(* The end of a second run: observations are flagged and have lag records, *)
(* and the metric is "No Data"                                             *)
C13_Witness ==
    /\ pc = "done"
    /\ prev.ran
    /\ metricSpikes = NoData
    /\ CountSpikes(df) > 0
    /\ df_lag # <<>>

=============================================================================
